---- MODULE Spec2Model ----
(***************************************************************************)
(* Token-bucket rate limiter of crates.io (src/src/rate_limiter.rs).       *)
(*                                                                         *)
(* Timestamps are integers: milliseconds relative to a whole second of     *)
(* the years 2004..2038, where an f64 of epoch seconds has a unit in the   *)
(* last place of 2^-22 s.  Durations are milliseconds, as in               *)
(* `config.rate.as_millis()`.                                              *)
(*                                                                         *)
(* take_token computes the elapsed refill intervals in SQL on f64 epoch    *)
(* seconds: date_part('epoch', ts) is the timestamp divided by 10^6,       *)
(* rounded to the nearest f64.  Whole seconds are exact, so an epoch is    *)
(* kept as whole seconds plus the sub-second part rounded to units of      *)
(* 2^-22 s.  The difference of two epochs is exact in f64; the quotient by *)
(* the rate is off by less than the distance of the exact quotient to the  *)
(* next integer, so its floor is the floor of the exact quotient of the    *)
(* rounded difference.                                                     *)
(*                                                                         *)
(* A request handler takes two steps, one per SQL statement: Begin (clock  *)
(* read and override SELECT) and Upsert (INSERT .. ON CONFLICT DO UPDATE   *)
(* .. RETURNING, then the Allow/Deny decision on the returned bucket).     *)
(***************************************************************************)
EXTENDS Integers, FiniteSets, Sequences, TLC

\* ---------------------------------------------------------------- bounds
MaxTicks == 3
MaxBurst == 2
MaxChecks == 3
MaxAdminOps == 1

\* ------------------------------------------------------- program constants
DefaultRateSeconds == 3600
DefaultBurst == 5

\* ------------------------------------------------------------ value sets
Users == {1, 2}
Procs == {1, 2}
Actions == {"PublishNew"}
Keys == Users \X Actions

\* the users whose requests and overrides Spec exercises
Callers == {1}

\* the instants at which the wall clock is read: the limiter starts 400 ms
\* past a whole second and one tick is 100 ms
FirstInstant == 4 * 100

Instants == {FirstInstant + k * 100 : k \in 0..MaxTicks}

\* configured refill rates in ms
Rates == {100, 200}
Bursts == 0..MaxBurst

NoRow == [absent |-> TRUE]
NoConfig == [unset |-> TRUE]
NoCall == [none |-> TRUE]
\* a nullable column is a set of at most one value
Null == {}

Some(v) == {v}

ValueOf(o) == CHOOSE v \in o : TRUE

\* expires_at of an override: never, or at the second instant
Expiries == {Null, Some(FirstInstant + 100)}

VARIABLES
    clock,      \* wall clock (Utc::now())
    config,     \* RateLimiter.config : HashMap<LimitedAction, RateLimiterConfig>
    buckets,    \* table publish_limit_buckets, keyed by (user_id, action)
    overrides,  \* table publish_rate_overrides, keyed by (user_id, action)
    pc,         \* per request handler: "idle" or "upsert"
    call,       \* per request handler: the arguments and locals of its call
    last,       \* the most recently completed check and what it returned
    hist,       \* per key: history of the commits on that key
    serial,     \* per key: the bucket of a one-call-at-a-time replay
    nchecks,    \* number of checks started
    nadmin,     \* number of administrative override changes
    twin        \* the tables and handlers of a second run of the limiter

vars == <<clock, config, buckets, overrides, pc, call, last, hist, serial,
          nchecks, nadmin, twin>>

\* ------------------------------------------------------- LimitedAction
default_rate_seconds(a) == DefaultRateSeconds

default_burst(a) == DefaultBurst

\* a limiter that ignores its config map
config_defaults_only(a) ==
    [rate |-> default_rate_seconds(a) * 1000, burst |-> default_burst(a)]

\* RateLimiter::config_for_action; the rate is kept in ms
config_for_action(a) ==
    IF config[a] # NoConfig
    THEN config[a]
    ELSE [rate |-> default_rate_seconds(a) * 1000, burst |-> default_burst(a)]

\* --------------------------------------------------------- SQL helpers
greatest(x, y) == IF x >= y THEN x ELSE y

least(x, y) == IF x <= y THEN x ELSE y

\* n / m rounded to the nearest integer, ties to even (IEEE 754 default)
RoundDiv(n, m) ==
    LET q == n \div m
        r == n % m
    IN  IF 2 * r < m THEN q
        ELSE IF 2 * r > m THEN q + 1
        ELSE IF q % 2 = 0 THEN q ELSE q + 1

\* date_part('epoch', ts) as an f64, in units of 2^-22 s, split into whole
\* seconds (exact) and the rounded sub-second part: 1 ms = 524288/125 units
EpochSeconds(ts) == ts \div 1000

EpochSubUlps(ts) == RoundDiv((ts % 1000) * 524288, 125)

\* floor((date_part('epoch', now) - date_part('epoch', last_refill))
\*         / date_part('epoch', refill_rate))
tokens_to_add(now, last_refill, rate) ==
    LET dsec == EpochSeconds(now) - EpochSeconds(last_refill)
        dsub == EpochSubUlps(now) - EpochSubUlps(last_refill)
    IN  (dsec * 1000 + ((dsub * 125) \div 524288)) \div rate

\* ------------------------------------------------------ effective burst
\* the override SELECT of take_token: the row's burst if the row exists and
\* expires_at IS NULL OR expires_at > now, else config.burst
OverrideActive(k, now) ==
    /\ overrides[k] # NoRow
    /\ \/ overrides[k].expires_at = Null
       \/ ValueOf(overrides[k].expires_at) > now

\* a lookup that takes the override of any user for the action
EffectiveBurstAnyUser(k, now, configBurst) ==
    LET active == {j \in Keys : j[2] = k[2] /\ OverrideActive(j, now)}
    IN  IF active # {}
        THEN overrides[CHOOSE j \in active : TRUE].burst
        ELSE configBurst

EffectiveBurst(k, now, configBurst) ==
    IF OverrideActive(k, now) THEN overrides[k].burst ELSE configBurst

\* ------------------------------------------------------- the upsert
\* a read-then-write limiter: the update is computed from the row as it was
\* before the latest commit on the key
StaleConflictRow(k) ==
    IF last # NoCall /\ last.key = k THEN last.before ELSE buckets[k]

\* the row that ON CONFLICT (user_id, action) DO UPDATE computes from
ConflictRow(k) == buckets[k]

\* an update that lets tokens banked above the burst drain one per call
UpdatedRowDraining(row, burst, now, rate) ==
    LET add == tokens_to_add(now, row.last_refill, rate)
        sum == greatest(0, row.tokens - 1) + add
    IN  [tokens      |-> IF row.tokens > burst THEN sum ELSE least(burst, sum),
         last_refill |-> row.last_refill + rate * add]

\* the update without the clamp to the burst
UpdatedRowUnclamped(row, burst, now, rate) ==
    LET add == tokens_to_add(now, row.last_refill, rate)
    IN  [tokens      |-> greatest(0, row.tokens - 1) + add,
         last_refill |-> row.last_refill + rate * add]

\* DO UPDATE SET tokens = ..., last_refill = ...
UpdatedRow(row, burst, now, rate) ==
    LET add == tokens_to_add(now, row.last_refill, rate)
    IN  [tokens      |-> least(burst, greatest(0, row.tokens - 1) + add),
         last_refill |-> row.last_refill + rate * add]

\* a new bucket that is charged for the call that creates it
InsertedRowCharged(burst, now) == [tokens |-> burst - 1, last_refill |-> now]

\* INSERT ... VALUES (uploader, action, burst, now)
InsertedRow(burst, now) == [tokens |-> burst, last_refill |-> now]

\* an upsert whose conflict branch writes the inserted values again
UpsertRowOverwrites(row, burst, now, rate) == InsertedRow(burst, now)

UpsertRow(row, burst, now, rate) ==
    IF row = NoRow THEN InsertedRow(burst, now)
    ELSE UpdatedRow(row, burst, now, rate)

\* a decision whose retry_after leaves out the rate
DecisionWithoutRate(bucket, rate) ==
    IF bucket.tokens >= 1
    THEN [kind |-> "Allow"]
    ELSE [kind |-> "Deny", retry_after |-> bucket.last_refill]

\* check_rate_limit's reading of the returned bucket
Decision(bucket, rate) ==
    IF bucket.tokens >= 1
    THEN [kind |-> "Allow"]
    ELSE [kind |-> "Deny", retry_after |-> bucket.last_refill + rate]

\* ------------------------------------------------------------- history
\* anchor: the first last_refill of the key; lastNow, lastBurst: the now and
\* the effective burst of the latest commit; mono: every commit so far used
\* a now not earlier than the commit before it; run, allowed: the number of
\* latest consecutive commits with that same now and burst, and how many of
\* them were allowed; fresh: the first of them created the row; steady:
\* every commit so far used the same burst; total: how many commits so far
\* were allowed; count: the number of commits so far
NoHist == [anchor |-> Null, lastNow |-> Null, lastBurst |-> Null,
           mono |-> TRUE, run |-> 0, allowed |-> 0, fresh |-> FALSE,
           steady |-> TRUE, total |-> 0, count |-> 0]

HistAfter(h, now, burst, bucket, result) ==
    LET token == IF result.kind = "Allow" THEN 1 ELSE 0
        same == h.lastNow = Some(now) /\ h.lastBurst = Some(burst)
    IN  [anchor    |-> IF h.anchor = Null THEN Some(bucket.last_refill)
                       ELSE h.anchor,
         lastNow   |-> Some(now),
         lastBurst |-> Some(burst),
         mono      |-> IF h.anchor = Null THEN TRUE
                       ELSE h.mono /\ now >= ValueOf(h.lastNow),
         run       |-> IF same THEN h.run + 1 ELSE 1,
         allowed   |-> IF same THEN h.allowed + token ELSE token,
         fresh     |-> IF same THEN h.fresh ELSE h.anchor = Null,
         steady    |-> IF h.anchor = Null THEN TRUE
                       ELSE h.steady /\ h.lastBurst = Some(burst),
         total     |-> h.total + token,
         count     |-> h.count + 1]

\* ------------------------------------------------------------ two runs
\* the tables, the handlers and the histories of a run of the limiter; twin
\* holds those of a second run, fed with the same clock and config, and
\* tells which of the two runs the other variables show
World ==
    [buckets |-> buckets, overrides |-> overrides, pc |-> pc, call |-> call,
     last |-> last, hist |-> hist, serial |-> serial, nchecks |-> nchecks,
     nadmin |-> nadmin]

\* ---------------------------------------------------------------- Init
Init ==
    /\ clock = FirstInstant
    /\ config \in [Actions -> {NoConfig} \cup [rate : Rates, burst : Bursts]]
    /\ buckets = [k \in Keys |-> NoRow]
    /\ overrides = [k \in Keys |-> NoRow]
    /\ pc = [p \in Procs |-> "idle"]
    /\ call = [p \in Procs |-> NoCall]
    /\ last = NoCall
    /\ hist = [k \in Keys |-> NoHist]
    /\ serial = [k \in Keys |-> NoRow]
    /\ nchecks = 0
    /\ nadmin = 0
    /\ twin = [world |-> World, side |-> "first"]

\* ------------------------------------------------------------- actions
\* the wall clock advances by one tick
Tick ==
    /\ clock + 100 \in Instants
    /\ clock' = clock + 100
    /\ UNCHANGED <<config, buckets, overrides, pc, call, last, hist, serial,
                   nchecks, nadmin, twin>>

\* a lookup that also deletes the override row of its key once it expired
BeginPurgingExpired(p, u, a) ==
    /\ pc[p] = "idle"
    /\ \A q \in Procs : q < p => pc[q] # "idle"
    /\ nchecks < MaxChecks
    /\ LET cfg == config_for_action(a)
           k == <<u, a>>
       IN  /\ call' = [call EXCEPT ![p] =
                         [key |-> k, now |-> clock, rate |-> cfg.rate,
                          burst |-> EffectiveBurst(k, clock, cfg.burst)]]
           /\ overrides' = IF overrides[k] # NoRow /\ ~OverrideActive(k, clock)
                           THEN [overrides EXCEPT ![k] = NoRow]
                           ELSE overrides
    /\ pc' = [pc EXCEPT ![p] = "upsert"]
    /\ nchecks' = nchecks + 1
    /\ UNCHANGED <<clock, config, buckets, last, hist, serial, nadmin, twin>>

\* check_rate_limit up to the upsert: read the clock, resolve the config and
\* the effective burst (the override SELECT); handlers are interchangeable,
\* the lowest idle one takes the request
Begin(p, u, a) ==
    /\ pc[p] = "idle"
    /\ \A q \in Procs : q < p => pc[q] # "idle"
    /\ nchecks < MaxChecks
    /\ LET cfg == config_for_action(a)
           k == <<u, a>>
       IN  call' = [call EXCEPT ![p] =
                      [key |-> k, now |-> clock, rate |-> cfg.rate,
                       burst |-> EffectiveBurst(k, clock, cfg.burst)]]
    /\ pc' = [pc EXCEPT ![p] = "upsert"]
    /\ nchecks' = nchecks + 1
    /\ UNCHANGED <<clock, config, buckets, overrides, last, hist, serial,
                   nadmin, twin>>

\* an upsert that is issued a second time before the check returns
UpsertTwice(p) ==
    /\ pc[p] = "upsert"
    /\ LET c == call[p]
           k == c.key
           before == ConflictRow(k)
           first == UpsertRow(before, c.burst, c.now, c.rate)
           bucket == UpsertRow(first, c.burst, c.now, c.rate)
       IN  /\ buckets' = [buckets EXCEPT ![k] = bucket]
           /\ last' = [key |-> k, now |-> c.now, rate |-> c.rate,
                       burst |-> c.burst, before |-> before,
                       bucket |-> bucket,
                       result |-> Decision(bucket, c.rate)]
           /\ hist' = [hist EXCEPT
                         ![k] = HistAfter(hist[k], c.now, c.burst, bucket,
                                          Decision(bucket, c.rate))]
           /\ serial' = [serial EXCEPT ![k] =
                           UpsertRow(serial[k], c.burst, c.now, c.rate)]
    /\ pc' = [pc EXCEPT ![p] = "idle"]
    /\ call' = [call EXCEPT ![p] = NoCall]
    /\ UNCHANGED <<clock, config, overrides, nchecks, nadmin, twin>>

\* an upsert keyed by the action alone: it writes the row of every user
UpsertEveryUser(p) ==
    /\ pc[p] = "upsert"
    /\ LET c == call[p]
           k == c.key
           before == ConflictRow(k)
           bucket == UpsertRow(before, c.burst, c.now, c.rate)
       IN  /\ buckets' = [j \in Keys |-> IF j[2] = k[2] THEN bucket
                                         ELSE buckets[j]]
           /\ last' = [key |-> k, now |-> c.now, rate |-> c.rate,
                       burst |-> c.burst, before |-> before,
                       bucket |-> bucket,
                       result |-> Decision(bucket, c.rate)]
           /\ hist' = [hist EXCEPT
                         ![k] = HistAfter(hist[k], c.now, c.burst, bucket,
                                          Decision(bucket, c.rate))]
           /\ serial' = [serial EXCEPT ![k] =
                           UpsertRow(serial[k], c.burst, c.now, c.rate)]
    /\ pc' = [pc EXCEPT ![p] = "idle"]
    /\ call' = [call EXCEPT ![p] = NoCall]
    /\ UNCHANGED <<clock, config, overrides, nchecks, nadmin, twin>>

\* the INSERT ... ON CONFLICT DO UPDATE ... RETURNING statement, and
\* check_rate_limit's decision on the bucket it returns
Upsert(p) ==
    /\ pc[p] = "upsert"
    /\ LET c == call[p]
           k == c.key
           before == ConflictRow(k)
           bucket == UpsertRow(before, c.burst, c.now, c.rate)
       IN  /\ buckets' = [buckets EXCEPT ![k] = bucket]
           /\ last' = [key |-> k, now |-> c.now, rate |-> c.rate,
                       burst |-> c.burst, before |-> before,
                       bucket |-> bucket,
                       result |-> Decision(bucket, c.rate)]
           /\ hist' = [hist EXCEPT
                         ![k] = HistAfter(hist[k], c.now, c.burst, bucket,
                                          Decision(bucket, c.rate))]
           /\ serial' = [serial EXCEPT ![k] =
                           UpsertRow(serial[k], c.burst, c.now, c.rate)]
    /\ pc' = [pc EXCEPT ![p] = "idle"]
    /\ call' = [call EXCEPT ![p] = NoCall]
    /\ UNCHANGED <<clock, config, overrides, nchecks, nadmin, twin>>

\* an administrator creates or changes the override of a key
SetOverride(k, b, e) ==
    /\ nadmin < MaxAdminOps
    /\ overrides[k] # [burst |-> b, expires_at |-> e]
    /\ overrides' = [overrides EXCEPT ![k] = [burst |-> b, expires_at |-> e]]
    /\ nadmin' = nadmin + 1
    /\ UNCHANGED <<clock, config, buckets, pc, call, last, hist, serial,
                   nchecks, twin>>

\* what a check returns when a statement fails: the QueryResult error of
\* take_token, passed on by `?`
StorageError == [kind |-> "StorageError"]

\* the override SELECT fails: `.optional()?` returns the error before the
\* upsert is issued, and check_rate_limit returns it; nothing is retried
LookupFails(p, u, a) ==
    /\ pc[p] = "idle"
    /\ \A q \in Procs : q < p => pc[q] # "idle"
    /\ nchecks < MaxChecks
    /\ LET cfg == config_for_action(a)
           k == <<u, a>>
       IN  last' = [key |-> k, now |-> clock, rate |-> cfg.rate,
                    before |-> ConflictRow(k), issued |-> FALSE,
                    result |-> StorageError]
    /\ nchecks' = nchecks + 1
    /\ UNCHANGED <<clock, config, buckets, overrides, pc, call, hist, serial,
                   nadmin, twin>>

\* a failed upsert that leaves a row written in part: a new row without its
\* tokens, or the new tokens of a row with its old last_refill
UpsertFailsHalfWritten(p) ==
    /\ pc[p] = "upsert"
    /\ LET c == call[p]
           k == c.key
           before == ConflictRow(k)
           row == UpsertRow(before, c.burst, c.now, c.rate)
           half == IF before = NoRow
                   THEN [tokens |-> 0, last_refill |-> row.last_refill]
                   ELSE [tokens |-> row.tokens,
                         last_refill |-> before.last_refill]
       IN  /\ buckets' = [buckets EXCEPT ![k] = half]
           /\ last' = [key |-> k, now |-> c.now, rate |-> c.rate,
                       burst |-> c.burst, before |-> before, issued |-> TRUE,
                       result |-> StorageError]
    /\ pc' = [pc EXCEPT ![p] = "idle"]
    /\ call' = [call EXCEPT ![p] = NoCall]
    /\ UNCHANGED <<clock, config, overrides, hist, serial, nchecks, nadmin,
                   twin>>

\* get_result returns an error for the upsert and check_rate_limit returns
\* it; nothing is retried.  The statement is one atomic statement: the
\* store either did not apply it, or applied it whole and the reply was
\* lost (connection failure after the commit)
UpsertFails(p) ==
    /\ pc[p] = "upsert"
    /\ LET c == call[p]
           k == c.key
           before == ConflictRow(k)
           row == UpsertRow(before, c.burst, c.now, c.rate)
       IN  /\ \/ UNCHANGED <<buckets, hist, serial>>
              \/ /\ buckets' = [buckets EXCEPT ![k] = row]
                 /\ hist' = [hist EXCEPT
                               ![k] = HistAfter(hist[k], c.now, c.burst, row,
                                                StorageError)]
                 /\ serial' = [serial EXCEPT
                                 ![k] = UpsertRow(serial[k], c.burst, c.now,
                                                  c.rate)]
           /\ last' = [key |-> k, now |-> c.now, rate |-> c.rate,
                       burst |-> c.burst, before |-> before, issued |-> TRUE,
                       result |-> StorageError]
    /\ pc' = [pc EXCEPT ![p] = "idle"]
    /\ call' = [call EXCEPT ![p] = NoCall]
    /\ UNCHANGED <<clock, config, overrides, nchecks, nadmin, twin>>

Next ==
    \/ Tick
    \/ \E p \in Procs, u \in Callers, a \in Actions : Begin(p, u, a)
    \/ \E p \in Procs : Upsert(p)
    \/ \E k \in Callers \X Actions, b \in Bursts, e \in Expiries :
          SetOverride(k, b, e)

Spec == Init /\ [][Next]_vars

\* ------------------------------------------------- a failing store
\* the limiter on a store whose statements can fail
NextFailing ==
    \/ Tick
    \/ \E p \in Procs, u \in Callers, a \in Actions : Begin(p, u, a)
    \/ \E p \in Procs : Upsert(p)
    \/ \E p \in Procs, u \in Callers, a \in Actions : LookupFails(p, u, a)
    \/ \E p \in Procs : UpsertFails(p)

SpecFailing == Init /\ [][NextFailing]_vars

\* ------------------------------------------------- several subjects
\* the limiter serving every user, no overrides in the table
NextKeys ==
    \/ Tick
    \/ \E p \in Procs, u \in Users, a \in Actions : Begin(p, u, a)
    \/ \E p \in Procs : Upsert(p)

SpecKeys == Init /\ [][NextKeys]_vars

\* the limiter serving one user while administrators set overrides for
\* every user
NextOverrides ==
    \/ Tick
    \/ \E p \in Procs, u \in Callers, a \in Actions : Begin(p, u, a)
    \/ \E p \in Procs : Upsert(p)
    \/ \E k \in Keys, b \in Bursts, e \in Expiries : SetOverride(k, b, e)

\* a limiter built without configuration: every action has its defaults
InitDefaults ==
    /\ Init
    /\ config = [a \in Actions |-> NoConfig]

SpecOverrides == InitDefaults /\ [][NextOverrides]_vars

\* ------------------------------------------------- two runs side by side
\* Two runs of the limiter on the same clock and config.  Both get the same
\* checks on the keys of Callers, in the same order and at the same
\* instants: the first run makes such a check, then the second run repeats
\* it before the clock moves on.  The first run also gets checks and
\* overrides of the other keys, at any time, while the second run gets
\* none: two runs that each agree with the run without them agree with
\* each other.
SubjectKeys == Callers \X Actions

InFlight(K) == \E p \in Procs : pc[p] = "upsert" /\ call[p].key \in K

\* the run shown has committed more, or fewer, checks on a key than the twin
Ahead(k) == hist[k].count > twin.world.hist[k].count

Behind(k) == hist[k].count < twin.world.hist[k].count

Level == \A k \in SubjectKeys : ~Ahead(k) /\ ~Behind(k)

\* the first run is shown and the second run has repeated all its checks
Free == twin.side = "first" /\ Level

\* the variables show the other run from now on
Swap ==
    /\ ~InFlight(SubjectKeys)
    /\ IF twin.side = "first" THEN ~Level ELSE Level
    /\ buckets' = twin.world.buckets
    /\ overrides' = twin.world.overrides
    /\ pc' = twin.world.pc
    /\ call' = twin.world.call
    /\ last' = twin.world.last
    /\ hist' = twin.world.hist
    /\ serial' = twin.world.serial
    /\ nchecks' = twin.world.nchecks
    /\ nadmin' = twin.world.nadmin
    /\ twin' = [world |-> World,
                side |-> IF twin.side = "first" THEN "second" ELSE "first"]
    /\ UNCHANGED <<clock, config>>

\* the clock moves on when both runs have made the same checks
TickLevel ==
    /\ Free
    /\ ~InFlight(SubjectKeys)
    /\ Tick

\* a check on a subject key: a new one in the first run, the repetition of
\* the first run's latest one in the second run
BeginSubject(p, u, a) ==
    /\ ~InFlight(SubjectKeys)
    /\ IF twin.side = "first" THEN Level ELSE Behind(<<u, a>>)
    /\ Begin(p, u, a)

UpsertSubject(p) ==
    /\ pc[p] = "upsert"
    /\ call[p].key \in SubjectKeys
    /\ Upsert(p)

\* checks and overrides of the other keys, in the first run
BeginOther(p, u, a) ==
    /\ Free
    /\ Begin(p, u, a)

UpsertOther(p) ==
    /\ Free
    /\ pc[p] = "upsert"
    /\ call[p].key \notin SubjectKeys
    /\ Upsert(p)

SetOverrideOther(k, b, e) ==
    /\ Free
    /\ SetOverride(k, b, e)

NextTwoRuns ==
    \/ TickLevel
    \/ \E p \in Procs, u \in Callers, a \in Actions : BeginSubject(p, u, a)
    \/ \E p \in Procs : UpsertSubject(p)
    \/ \E p \in Procs, u \in Users \ Callers, a \in Actions :
          BeginOther(p, u, a)
    \/ \E p \in Procs : UpsertOther(p)
    \/ \E k \in Keys \ SubjectKeys, b \in Bursts, e \in Expiries :
          SetOverrideOther(k, b, e)
    \/ Swap

\* both runs start from empty tables, on a limiter configured with one token
\* per tick and a burst of one token: the configuration at which the fewest
\* checks reach a denial and a refill
InitTwoRuns ==
    /\ Init
    /\ \A a \in Actions : config[a] = [rate |-> 100, burst |-> 1]

SpecTwoRuns == InitTwoRuns /\ [][NextTwoRuns]_vars

\* ---------------------------------------------------------------- claims
Committed == last # NoCall

Updated == Committed /\ last.before # NoRow

Created == Committed /\ last.before = NoRow

RateOf(k) == config_for_action(k[2]).rate

\* C1: the token count written and returned by a check is at most the
\* effective burst that this check resolved.
C1_TokensAtMostResolvedBurst ==
    Committed =>
        /\ last.bucket.tokens <= last.burst
        /\ buckets[last.key] = last.bucket

\* an update whose clamp discarded tokens of a bucket above the burst
C1_Witness ==
    /\ Updated
    /\ last.before.tokens - 1 > last.burst
    /\ last.bucket.tokens = last.burst

\* C2: the stored and returned token count is never negative, whatever now
\* the callers supply, a now earlier than the stored last_refill included.
C2_TokensNeverNegative ==
    /\ \A k \in Keys : buckets[k] # NoRow => buckets[k].tokens >= 0
    /\ Committed => last.bucket.tokens >= 0

\* C3 (as claimed): the first check of a key without a bucket row returns
\* Allow and leaves tokens = B and last_refill = now, for any burst B.
C3_FirstCheckAllows ==
    Created =>
        /\ last.result.kind = "Allow"
        /\ last.bucket = [tokens |-> last.burst, last_refill |-> last.now]

\* C3 (amended): the first check of a key without a bucket row leaves
\* tokens = B and last_refill = now; it returns Allow when B >= 1 and Deny
\* with retry_after = now + rate when B = 0.
C3_FirstCheckFillsBucket ==
    Created =>
        /\ last.bucket = [tokens |-> last.burst, last_refill |-> last.now]
        /\ IF last.burst >= 1
           THEN last.result = [kind |-> "Allow"]
           ELSE last.result = [kind |-> "Deny",
                               retry_after |-> last.now + RateOf(last.key)]

\* a first check with a positive burst, allowed, on a full bucket
C3_Witness ==
    /\ Created
    /\ last.burst >= 1
    /\ last.result.kind = "Allow"
    /\ buckets[last.key].tokens = last.burst

\* C4: on an existing bucket (t0, L0) a check at T >= L0 yields exactly
\* min(B, max(0, t0 - 1) + floor((T - L0) / R)) tokens.
C4_ExactRefillFormula ==
    (Updated /\ last.now >= last.before.last_refill) =>
        last.bucket.tokens =
            least(last.burst,
                  greatest(0, last.before.tokens - 1)
                    + ((last.now - last.before.last_refill) \div last.rate))

\* C5: over checks at non-decreasing times, last_refill is the first
\* last_refill A plus floor((T - A) / R) whole rates, T the latest check.
C5_LastRefillAnchored ==
    \A k \in Keys :
        (buckets[k] # NoRow /\ hist[k].mono) =>
            LET A == ValueOf(hist[k].anchor)
                T == ValueOf(hist[k].lastNow)
            IN  buckets[k].last_refill = A + ((T - A) \div RateOf(k)) * RateOf(k)

\* C6: under any interleaving, the bucket a call returns and the stored
\* bucket are those of applying the upsert one call at a time in commit
\* order: no call computes from a superseded row.
C6_CommitOrderSerial ==
    /\ \A k \in Keys : buckets[k] = serial[k]
    /\ Committed => last.bucket = serial[last.key]

\* a call that read the clock first and committed second, on a row that the
\* other call had created in between
C6_Witness ==
    /\ Updated
    /\ last.now < last.before.last_refill
    /\ buckets[last.key] = last.bucket

\* C7: a check returns Allow exactly when the bucket its upsert returned has
\* tokens >= 1, else Deny with retry_after = that bucket's last_refill plus
\* the configured rate of the action.
C7_DecisionFromReturnedBucket ==
    Committed =>
        IF last.bucket.tokens >= 1
        THEN last.result = [kind |-> "Allow"]
        ELSE last.result =
                [kind |-> "Deny",
                 retry_after |-> last.bucket.last_refill + RateOf(last.key)]

\* a denied check whose bucket was last refilled before the check's now
C7_Witness ==
    /\ Committed
    /\ last.result.kind = "Deny"
    /\ last.bucket.last_refill < last.now
    /\ last.result.retry_after > last.now

\* the step in which handler p commits its upsert
Commits(p) == pc[p] = "upsert" /\ pc'[p] = "idle"

\* C8: a check at the same now as the previous check, on a bucket with
\* t0 > 0 tokens and an unchanged effective burst, yields t0 - 1 tokens and
\* leaves last_refill unchanged.
C8_SameNowConsumesOne ==
    [][\A p \in Procs :
        LET k == call[p].key
        IN  ( /\ Commits(p)
              /\ buckets[k] # NoRow
              /\ buckets[k].tokens > 0
              /\ hist[k].lastNow = Some(call[p].now)
              /\ hist[k].lastBurst = Some(call[p].burst) ) =>
                buckets'[k] = [tokens |-> buckets[k].tokens - 1,
                               last_refill |-> buckets[k].last_refill]]_vars

\* C9: once tokens = 0, a repeated check at the same now (effective burst
\* unchanged) returns Deny with the same retry_after and leaves the stored
\* bucket identical.
C9_ExhaustedStaysDenied ==
    [][\A p \in Procs :
        LET k == call[p].key
        IN  ( /\ Commits(p)
              /\ buckets[k] # NoRow
              /\ buckets[k].tokens = 0
              /\ hist[k].lastNow = Some(call[p].now)
              /\ hist[k].lastBurst = Some(call[p].burst) ) =>
                /\ buckets'[k] = buckets[k]
                /\ last'.result =
                     [kind |-> "Deny",
                      retry_after |-> buckets[k].last_refill + RateOf(k)]]_vars

\* C10: after a bucket is exhausted by a check at time now, a check at
\* exactly now + rate (same effective burst >= 1) yields tokens = 1, Allow,
\* and last_refill advanced by exactly one rate.
C10_TokenAfterExactlyRate ==
    [][\A p \in Procs :
        LET k == call[p].key
        IN  ( /\ Commits(p)
              /\ buckets[k] # NoRow
              /\ buckets[k].tokens = 0
              /\ call[p].burst >= 1
              /\ hist[k].lastBurst = Some(call[p].burst)
              /\ hist[k].lastNow = Some(call[p].now - RateOf(k)) ) =>
                /\ buckets'[k] =
                     [tokens |-> 1,
                      last_refill |-> buckets[k].last_refill + RateOf(k)]
                /\ last'.result = [kind |-> "Allow"]]_vars

\* C11: after a check returned Deny with retry_after, the next check on the
\* key with the same effective burst (>= 1) and rate is denied when its now
\* is earlier than retry_after and allowed when its now is retry_after or
\* later.
C11_RetryAfterIsExact ==
    [][\A p \in Procs :
        LET k == call[p].key
        IN  ( /\ Commits(p)
              /\ last # NoCall
              /\ last.key = k
              /\ last.result.kind = "Deny"
              /\ call[p].burst >= 1
              /\ last.burst = call[p].burst
              /\ last.rate = call[p].rate ) =>
                (last'.result.kind = "Allow")
                    <=> (call[p].now >= last.result.retry_after)]_vars

\* C12: when the effective burst of a check is lower than that of the
\* previous check on the key and less than one rate has elapsed since
\* last_refill, the check leaves min(B_lo, max(0, t0 - 1)) tokens.
C12_BurstDropTruncates ==
    [][\A p \in Procs :
        LET k == call[p].key
        IN  ( /\ Commits(p)
              /\ buckets[k] # NoRow
              /\ hist[k].lastBurst # Null
              /\ call[p].burst < ValueOf(hist[k].lastBurst)
              /\ call[p].now >= buckets[k].last_refill
              /\ call[p].now < buckets[k].last_refill + call[p].rate ) =>
                /\ buckets'[k].tokens =
                     least(call[p].burst, greatest(0, buckets[k].tokens - 1))
                /\ last'.bucket = buckets'[k]]_vars

\* a check within one rate of last_refill whose burst is below the tokens
\* the bucket had banked less one: the surplus is cut on this call
C12_Witness ==
    /\ Updated
    /\ last.now >= last.before.last_refill
    /\ last.now < last.before.last_refill + last.rate
    /\ last.before.tokens - 1 > last.burst
    /\ last.bucket.tokens = last.burst
    /\ hist[last.key].lastBurst = Some(last.burst)

\* the step in which handler p reads the clock and looks up the override
Begins(p) == pc[p] = "idle" /\ pc'[p] = "upsert"

\* C13: the effective burst a check resolves is the burst of the override
\* row of its own key when that row exists and its expires_at is null or
\* strictly later than now; with no row, or expires_at <= now, it is the
\* config burst, whatever the override rows of other keys are.
C13_EffectiveBurstRule ==
    [][\A p \in Procs :
        Begins(p) =>
            LET k == call'[p].key
                now == call'[p].now
                row == overrides[k]
            IN  call'[p].burst =
                  IF row = NoRow THEN config_for_action(k[2]).burst
                  ELSE IF row.expires_at = Null THEN row.burst
                  ELSE IF ValueOf(row.expires_at) > now THEN row.burst
                  ELSE config_for_action(k[2]).burst]_vars

\* a check made at the very instant its key's override expires resolved the
\* config burst
C13_Witness ==
    \E p \in Procs :
        /\ pc[p] = "upsert"
        /\ overrides[call[p].key] # NoRow
        /\ overrides[call[p].key].expires_at = Some(call[p].now)
        /\ overrides[call[p].key].burst # call[p].burst
        /\ call[p].burst = config_for_action(call[p].key[2]).burst

\* C14: a check never moves the stored last_refill of its key backwards,
\* whatever now it uses, a now earlier than last_refill included.
C14_LastRefillMonotonic ==
    [][\A k \in Keys :
        (buckets[k] # NoRow /\ buckets'[k] # NoRow) =>
            buckets'[k].last_refill >= buckets[k].last_refill]_vars

\* C15: the token count a take_token call returns is between 0 and the
\* burst the limiter is configured with for the action.
C15_TokensWithinConfigBurst ==
    Committed =>
        /\ last.bucket.tokens >= 0
        /\ last.bucket.tokens <= config_for_action(last.key[2]).burst

\* C16: among consecutive checks on one key that use the same now and the
\* same effective burst B, at most B are allowed; when the first of them
\* created the bucket, exactly min(N, B) of the N checks are allowed.
C16_AtMostBurstPerInstant ==
    \A k \in Keys :
        hist[k].lastBurst # Null =>
            LET B == ValueOf(hist[k].lastBurst)
            IN  /\ hist[k].allowed <= B
                /\ hist[k].fresh => hist[k].allowed = least(hist[k].run, B)

\* the latest check ended with a storage error
Failed == last # NoCall /\ last.result = StorageError

\* C17 (as claimed): after a check that failed in the store, the bucket row
\* of its key is exactly the row from before the call.
C17_FailureLeavesRowUntouched ==
    Failed => buckets[last.key] = last.before

\* C17 (amended): a check that failed in the store returns a storage error
\* and issues no further statement; a failed lookup leaves the bucket row as
\* it was, and after a failed upsert the row is either as it was or the
\* whole row of that one upsert, never a row written in part.
C17_FailureIsAllOrNothing ==
    Failed =>
        IF last.issued
        THEN buckets[last.key]
               \in {last.before,
                    UpsertRow(last.before, last.burst, last.now, last.rate)}
        ELSE buckets[last.key] = last.before

\* an upsert on an existing row that the store applied although the check
\* returned a storage error
C17_Witness ==
    /\ Failed
    /\ last.issued
    /\ last.before # NoRow
    /\ buckets[last.key] # last.before
    /\ buckets[last.key].tokens = last.before.tokens - 1

\* C18: in every step, the only bucket row that can change is the row of the
\* key of a check whose upsert commits in that step; the rows of all other
\* keys stay as they are, also while checks on those keys are in flight.
C18_OtherKeysUntouched ==
    [][\A j \in Keys :
        buckets'[j] # buckets[j] =>
            \E p \in Procs : Commits(p) /\ call[p].key = j]_vars

\* a check committed on one key while a check on another key, begun no
\* later, is still in flight and that key already has a row
C18_Witness ==
    /\ Committed
    /\ buckets[last.key] = last.bucket
    /\ \E p \in Procs :
          /\ pc[p] = "upsert"
          /\ call[p].key # last.key
          /\ call[p].now <= last.now
          /\ buckets[call[p].key] # NoRow

\* C19: no step of a check, the override lookup or the upsert, changes the
\* override table: rows are neither created, nor modified, nor deleted.
C19_ChecksLeaveOverrides ==
    [][(\E p \in Procs : Begins(p) \/ Commits(p)) =>
            overrides' = overrides]_vars

\* a check completed at or after the expiry of its key's override, and the
\* expired row is still in the table
C19_Witness ==
    /\ Committed
    /\ overrides[last.key] # NoRow
    /\ overrides[last.key].expires_at # Null
    /\ ValueOf(overrides[last.key].expires_at) <= last.now
    /\ last.burst # overrides[last.key].burst

\* C20: a check uses the rate of the config map entry of its action and,
\* when its key has no override row, the burst of that entry; when the
\* action has no entry it uses the defaults of the action, for PublishNew a
\* rate of 3600 s and a burst of 5.
C20_ConfigOrDefaults ==
    [][\A p \in Procs :
        Begins(p) =>
            LET k == call'[p].key
                a == k[2]
            IN  /\ call'[p].rate =
                     IF config[a] # NoConfig THEN config[a].rate
                     ELSE 3600 * 1000
                /\ overrides[k] = NoRow =>
                     call'[p].burst =
                       IF config[a] # NoConfig THEN config[a].burst
                       ELSE 5]_vars

\* a completed first check of a limiter without an entry for PublishNew: it
\* ran with the defaults and filled the bucket with 5 tokens
C20_Witness ==
    /\ Created
    /\ last.key[2] = "PublishNew"
    /\ config[last.key[2]] = NoConfig
    /\ overrides[last.key] = NoRow
    /\ last.rate = 3600 * 1000
    /\ last.burst = 5
    /\ last.bucket.tokens = 5

\* C24: the first upsert to commit on a key creates the row with tokens = B
\* and last_refill = its now; every later commit on the key, also of a check
\* that began while the row was absent, finds that row and applies the
\* update formula to it.
C24_CreatedExactlyOnce ==
    [][\A p \in Procs :
        LET k == call[p].key
            c == call[p]
        IN  Commits(p) =>
              IF hist[k].anchor = Null
              THEN /\ last'.before = NoRow
                   /\ buckets'[k] = [tokens |-> c.burst, last_refill |-> c.now]
                   /\ last'.bucket = buckets'[k]
              ELSE LET add == tokens_to_add(c.now, buckets[k].last_refill,
                                            c.rate)
                   IN  /\ last'.before = buckets[k]
                       /\ buckets[k] # NoRow
                       /\ buckets'[k] =
                            [tokens |-> least(c.burst,
                                              greatest(0, buckets[k].tokens - 1)
                                                + add),
                             last_refill |-> buckets[k].last_refill
                                               + c.rate * add]
                       /\ last'.bucket = buckets'[k]]_vars

\* two checks raced on an absent row: the one that read the clock later
\* created it, and the other one then updated the full row it found
C24_Witness ==
    /\ Updated
    /\ nchecks = 1 + 1
    /\ \A p \in Procs : pc[p] = "idle"
    /\ last.before = [tokens |-> last.burst,
                      last_refill |-> last.before.last_refill]
    /\ last.now < last.before.last_refill
    /\ ~hist[last.key].fresh

\* C25: a check that returns Allow or Deny has applied its upsert to the row
\* of its key exactly once, so that row exists afterwards; and no step of
\* the limiter, a failing one included, takes a row away.
C25_UpsertPersistedRowStays ==
    [][/\ \A k \in Keys : buckets[k] # NoRow => buckets'[k] # NoRow
       /\ \A p \in Procs :
            ( /\ Commits(p)
              /\ last'.result.kind \in {"Allow", "Deny"} ) =>
                LET c == call[p]
                IN  /\ buckets'[c.key] # NoRow
                    /\ buckets'[c.key] =
                         UpsertRow(buckets[c.key], c.burst, c.now, c.rate)
                    /\ last'.bucket = buckets'[c.key]]_vars

\* a denied check that wrote the row all the same: it found tokens in the
\* row and left a different row behind
C25_Witness ==
    /\ Updated
    /\ last.result.kind = "Deny"
    /\ last.before.tokens >= 1
    /\ buckets[last.key] # NoRow
    /\ buckets[last.key] # last.before

\* C26: when a check at T >= L0 refills more tokens than the burst can hold,
\* the bucket is full and last_refill has advanced by all
\* floor((T - L0) / R) elapsed intervals.
C26_LastRefillAdvancesPastCap ==
    ( /\ Updated
      /\ last.now >= last.before.last_refill
      /\ greatest(0, last.before.tokens - 1)
           + ((last.now - last.before.last_refill) \div last.rate)
           > last.burst ) =>
        /\ last.bucket.tokens = last.burst
        /\ last.bucket.last_refill =
             last.before.last_refill
               + ((last.now - last.before.last_refill) \div last.rate)
                   * last.rate

\* C27: on a key whose bucket was created by a check at T0 and whose checks
\* all used the same effective burst B, the number of allowed checks is at
\* most B + floor((T - T0) / R) for every T that no check so far is later
\* than, the current clock reading among them.  Checks read the clock in
\* non-decreasing order; concurrent ones may commit in another order.
C27_AllowedWithinBudget ==
    \A k \in Keys :
        (hist[k].anchor # Null /\ hist[k].steady) =>
            LET B == ValueOf(hist[k].lastBurst)
                T0 == ValueOf(hist[k].anchor)
            IN  hist[k].total <= B + ((clock - T0) \div RateOf(k))

\* C28: a denied check whose now is not earlier than the last_refill it
\* found returns a retry_after with now < retry_after <= now + rate.
C28_RetryAfterWithinOneRate ==
    ( /\ Updated
      /\ last.result.kind = "Deny"
      /\ last.now >= last.before.last_refill ) =>
        /\ last.now < last.result.retry_after
        /\ last.result.retry_after <= last.now + last.rate

\* C29: a check on an exhausted bucket (tokens = 0) at a time before the
\* retry_after that the bucket stands for, with the effective burst of the
\* check before it, is denied, reports that same retry_after and leaves
\* tokens and last_refill as they were.
C29_DeniedChecksChangeNothing ==
    [][\A p \in Procs :
        LET k == call[p].key
        IN  ( /\ Commits(p)
              /\ buckets[k] # NoRow
              /\ buckets[k].tokens = 0
              /\ hist[k].lastBurst = Some(call[p].burst)
              /\ call[p].now < buckets[k].last_refill + call[p].rate ) =>
                /\ buckets'[k] = buckets[k]
                /\ last'.result =
                     [kind |-> "Deny",
                      retry_after |-> buckets[k].last_refill + call[p].rate]]_vars

\* C30: a check whose effective burst B_new is higher than that of the check
\* before it on the key finds the bucket (t0, L0) not refilled: it yields
\* min(B_new, max(0, t0 - 1) + floor((T - L0) / R)) tokens; a bucket that is
\* created starts at the effective burst of the creating check.
C30_BurstIncreaseDoesNotRefill ==
    [][\A p \in Procs :
        LET k == call[p].key
            c == call[p]
        IN  Commits(p) =>
              IF buckets[k] = NoRow
              THEN buckets'[k].tokens = c.burst
              ELSE ( /\ hist[k].lastBurst # Null
                     /\ c.burst > ValueOf(hist[k].lastBurst) ) =>
                       buckets'[k].tokens =
                         least(c.burst,
                               greatest(0, buckets[k].tokens - 1)
                                 + ((c.now - buckets[k].last_refill)
                                      \div c.rate))]_vars

\* C31: two runs that apply the same checks, in the same order and with the
\* same now values, to a key and differ only in the checks and overrides of
\* other keys agree on the key: whenever both runs have committed the same
\* number of checks on it, its bucket is the same in both, and the latest
\* check on it returned the same result in both, Allow in both or Deny with
\* the same retry_after, and left the same row.
C31_Noninterference ==
    Level =>
      \A k \in SubjectKeys :
        /\ buckets[k] = twin.world.buckets[k]
        /\ hist[k].total = twin.world.hist[k].total
        /\ ( /\ twin.side = "second"
             /\ last # NoCall
             /\ last.key = k ) =>
               /\ twin.world.last # NoCall
               /\ twin.world.last.key = k
               /\ last.now = twin.world.last.now
               /\ last.result = twin.world.last.result
               /\ last.bucket = twin.world.last.bucket

\* both runs denied their second check of the key at the same instant, after
\* the first run alone gave another key an override and a bucket
C31_Witness ==
    /\ twin.side = "second"
    /\ Level
    /\ \E k \in SubjectKeys :
         /\ last # NoCall
         /\ last.key = k
         /\ hist[k].count >= 2
         /\ last.result.kind = "Deny"
    /\ \E j \in Keys \ SubjectKeys :
         /\ twin.world.buckets[j] # NoRow
         /\ twin.world.overrides[j] # NoRow
         /\ buckets[j] = NoRow
         /\ overrides[j] = NoRow

====
